---- MODULE Spec2Model ----
(***************************************************************************)
(* A model of miniredis.py: the MiniRedis server object, its dispatch loop *)
(* run(), the request decoder handle(), the reply encoder dump() and the   *)
(* command handlers handle_*.                                              *)
(*                                                                         *)
(* Python values are modelled as follows.                                  *)
(*   - a str is a sequence of one-character strings;                       *)
(*   - a value stored in a table is a record [kind, n, s, l] with kind     *)
(*     "str" (text in s), "int" (number in n) or "deque" (elements in l);  *)
(*   - a handler's return value is a record of the same shape, with kind   *)
(*     "True", "False", "EmptyScalar", "EmptyList", "int", "str", "list",  *)
(*     "RedisMessage" or "RedisError" (message text in field msg);         *)
(*   - a socket is named by the number of the connection, 0 is the         *)
(*     listening socket.                                                   *)
(***************************************************************************)
EXTENDS Integers, Sequences, FiniteSets, TLC

VARIABLES
    pc,        \* position of run(): "start", "select", "loop", "returned", "crashed"
    halt,      \* self.halt
    clients,   \* keys of self.clients: the sockets of the live connections
    sock,      \* per connection, the server side socket: "none", "open", "closed"
    db,        \* per connection, client.db
    tables,    \* self.tables: database number -> (key -> value)
    client,    \* the local variable `client` of run(): last accepted connection, 0 = unbound
    readable,  \* the sockets of the current wakeup cycle still to be visited
    backlog,   \* connections waiting in the listen queue
    peer,      \* per connection, the remote end: "idle", "connected", "closed"
    sockbuf,   \* per connection, request frames received by the kernel, not yet read
    rbuf,      \* per connection, request frames held in the buffer of client.rfile
    wfile,     \* per connection, the replies written to client.wfile and flushed
    log_file,  \* the lines written to self.log_file
    db_file,   \* whether self.db_file is set
    disk,      \* the snapshot file: [exists, tables]
    diskok,    \* whether the next write of the snapshot file succeeds
    lastsave,  \* self.lastsave
    now,       \* time.time()
    children,  \* snapshots held by forked BGSAVE children that have not written yet
    sent       \* per connection, the frames its peer has sent so far

vars == <<pc, halt, clients, sock, db, tables, client, readable, backlog, peer,
          sockbuf, rbuf, wfile, log_file, db_file, disk, diskok, lastsave, now,
          children, sent>>

-----------------------------------------------------------------------------
\* Bounds of the model.

\* Number of connections that may ever be opened.
MaxConn == 2

\* Number of request frames the peers send in the connection lifecycle model.
MaxSends == 2

Conns == 1 .. MaxConn

\* who-values of log lines that are not a peer name
SERVER == 0
CLOSED == -1

-----------------------------------------------------------------------------
\* Python str and int.

Digits == <<"0", "1", "2", "3", "4", "5", "6", "7", "8", "9">>

IsDigit(ch) == \E i \in 1 .. 10 : Digits[i] = ch

DigitVal(ch) == (CHOOSE i \in 1 .. 10 : Digits[i] = ch) - 1

IsSpace(ch) == ch \in {" ", "\t", "\n", "\r"}

RECURSIVE lstrip(_)
lstrip(s) == IF s # <<>> /\ IsSpace(Head(s)) THEN lstrip(Tail(s)) ELSE s

RECURSIVE rstrip(_)
rstrip(s) ==
    IF s # <<>> /\ IsSpace(s[Len(s)]) THEN rstrip(SubSeq(s, 1, Len(s) - 1)) ELSE s

strip(s) == rstrip(lstrip(s))

RECURSIVE DigitsVal(_)
DigitsVal(s) ==
    IF s = <<>> THEN 0
    ELSE 10 * DigitsVal(SubSeq(s, 1, Len(s) - 1)) + DigitVal(s[Len(s)])

AllDigits(s) == s # <<>> /\ \A i \in 1 .. Len(s) : IsDigit(s[i])

\* int(s) for a str s: [ok |-> FALSE] stands for ValueError.
int_str(s) ==
    LET t == strip(s)
        signed == t # <<>> /\ Head(t) \in {"+", "-"}
        body == IF signed THEN lstrip(Tail(t)) ELSE t
    IN  IF AllDigits(body)
        THEN [ok |-> TRUE,
              n |-> IF signed /\ Head(t) = "-" THEN 0 - DigitsVal(body)
                    ELSE DigitsVal(body)]
        ELSE [ok |-> FALSE, n |-> 0]

RECURSIVE NatStr(_)
NatStr(n) ==
    IF n < 10 THEN <<Digits[n + 1]>>
    ELSE NatStr(n \div 10) \o <<Digits[(n % 10) + 1]>>

\* str(n) for an int n
str_int(n) == IF n < 0 THEN <<"-">> \o NatStr(0 - n) ELSE NatStr(n)

-----------------------------------------------------------------------------
\* Python objects: table values and handler results share one record shape.

Obj(kind, n, s, l, msg) == [kind |-> kind, n |-> n, s |-> s, l |-> l, msg |-> msg]

StrV(s) == Obj("str", 0, s, <<>>, "")
IntV(n) == Obj("int", n, <<>>, <<>>, "")
DequeV(l) == Obj("deque", 0, <<>>, l, "")
ListV(l) == Obj("list", 0, <<>>, l, "")
True == Obj("True", 0, <<>>, <<>>, "")
False == Obj("False", 0, <<>>, <<>>, "")
None == Obj("None", 0, <<>>, <<>>, "")
RedisMessage(m) == Obj("RedisMessage", 0, <<>>, <<>>, m)
RedisError(m) == Obj("RedisError", 0, <<>>, <<>>, m)

EMPTY_SCALAR == Obj("EmptyScalar", 0, <<>>, <<>>, "")
EMPTY_LIST == Obj("EmptyList", 0, <<>>, <<>>, "")
BAD_VALUE == RedisError("Operation against a key holding the wrong kind of value")

\* int(o): ValueError for a str that is no number, TypeError for a deque.
int(o) ==
    CASE o.kind = "int" -> [ok |-> TRUE, n |-> o.n]
      [] o.kind = "str" -> int_str(o.s)
      [] OTHER -> [ok |-> FALSE, n |-> 0]

\* str(o) of a str or an int
str(o) == IF o.kind = "int" THEN str_int(o.n) ELSE o.s

\* seq[low:high]; hasHigh = FALSE stands for seq[low:None]
\* a slice that includes the element at high
Slice_incl(seq, low, high, hasHigh) ==
    LET n == Len(seq)
        clamp(i) == IF i < 0 THEN (IF i + n < 0 THEN 0 ELSE i + n)
                    ELSE (IF i > n THEN n ELSE i)
        lo == clamp(low)
        hi == IF hasHigh THEN clamp(high + 1) ELSE n
    IN  SubSeq(seq, lo + 1, hi)

\* seq[low:high] of Python, seq[low:] when hasHigh is false
Slice(seq, low, high, hasHigh) ==
    LET n == Len(seq)
        clamp(i) == IF i < 0 THEN (IF i + n < 0 THEN 0 ELSE i + n)
                    ELSE (IF i > n THEN n ELSE i)
        lo == clamp(low)
        hi == IF hasHigh THEN clamp(high) ELSE n
    IN  SubSeq(seq, lo + 1, hi)

\* dict operations
Put(t, k, v) == [x \in (DOMAIN t) \cup {k} |-> IF x = k THEN v ELSE t[x]]
Del(t, k) == [x \in (DOMAIN t) \ {k} |-> t[x]]
EmptyDict == [x \in {} |-> None]

-----------------------------------------------------------------------------
\* re.compile(pattern.replace('*', '.*')) and r.search(k), for patterns made of
\* ordinary characters, '.' and '*'.

RECURSIVE replace_star(_)
replace_star(p) ==
    IF p = <<>> THEN <<>>
    ELSE (IF Head(p) = "*" THEN <<".", "*">> ELSE <<Head(p)>>) \o replace_star(Tail(p))

\* the compiled pattern: a sequence of atoms [ch, star]
RECURSIVE re_compile(_)
re_compile(r) ==
    IF r = <<>> THEN <<>>
    ELSE IF Len(r) >= 2 /\ r[2] = "*"
         THEN <<[ch |-> r[1], star |-> TRUE]>> \o re_compile(SubSeq(r, 3, Len(r)))
         ELSE <<[ch |-> r[1], star |-> FALSE]>> \o re_compile(Tail(r))

re_accepts(ch, c) == IF ch = "." THEN c # "\n" ELSE ch = c

\* whether a prefix of s matches the atoms
RECURSIVE re_match(_, _)
re_match(atoms, s) ==
    IF atoms = <<>> THEN TRUE
    ELSE LET a == Head(atoms) IN
         IF a.star
         THEN re_match(Tail(atoms), s)
              \/ (s # <<>> /\ re_accepts(a.ch, Head(s)) /\ re_match(atoms, Tail(s)))
         ELSE s # <<>> /\ re_accepts(a.ch, Head(s)) /\ re_match(Tail(atoms), Tail(s))

\* r.search(s): a match starting at any position of s
re_search(atoms, s) ==
    \E i \in 1 .. Len(s) + 1 : re_match(atoms, SubSeq(s, i, Len(s)))

-----------------------------------------------------------------------------
\* The fields of the server object a handler reads and writes, as one record.

St == [tables |-> tables, db |-> db, clients |-> clients, sock |-> sock,
       halt |-> halt, disk |-> disk, lastsave |-> lastsave,
       log_file |-> log_file, children |-> children,
       sockbuf |-> sockbuf, rbuf |-> rbuf, wfile |-> wfile,
       db_file |-> db_file, diskok |-> diskok, now |-> now]

\* F applied to the value of e, e being evaluated once
With(e, F(_)) == CHOOSE y \in {F(x) : x \in {e}} : TRUE

\* What a call leaves behind: the server, the value returned, whether it raised.
Return(S, o) == [st |-> S, ret |-> o, exc |-> FALSE]
Raise(S) == [st |-> S, ret |-> None, exc |-> TRUE]

\* client.table
Table(S, c) == S.tables[S.db[c]]

SetTable(S, c, t) == [S EXCEPT !.tables[S.db[c]] = t]

\* MiniRedis.log: the peer name of an open socket, '<CLOSED>' when getpeername raises
log(S, c, op, args, res) ==
    LET who == IF c = 0 THEN SERVER ELSE IF S.sock[c] = "open" THEN c ELSE CLOSED
    IN  [S EXCEPT !.log_file =
            Append(@, [who |-> who, op |-> op, args |-> args, res |-> res])]

\* MiniRedis.save: [st, exc].  The snapshot file records the tables and the time
\* it was written (-1: before the server was constructed); a write that fails
\* raises IOError from open() and leaves the file as it was.
save(S) ==
    IF ~S.db_file THEN [st |-> S, exc |-> FALSE]
    ELSE IF ~S.diskok THEN [st |-> S, exc |-> TRUE]
    ELSE [st |-> [S EXCEPT !.disk = [exists |-> TRUE, tables |-> S.tables, mtime |-> S.now],
                           !.lastsave = S.now],
          exc |-> FALSE]

\* MiniRedis.select
\* select() binding every connection to the database n
select_all(S, c, n) ==
    LET T == IF n \in DOMAIN S.tables THEN S.tables ELSE Put(S.tables, n, EmptyDict)
    IN  [S EXCEPT !.tables = T, !.db = [x \in DOMAIN S.db |-> n]]

select(S, c, n) ==
    LET T == IF n \in DOMAIN S.tables THEN S.tables ELSE Put(S.tables, n, EmptyDict)
    IN  [S EXCEPT !.tables = T, !.db[c] = n]

-----------------------------------------------------------------------------
\* HANDLERS.  Each takes the server S, the connection c and the decoded
\* arguments (each a str), and yields [st, ret, exc].

handle_quit(S, c) ==
    IF S.sock[c] # "open"
    THEN Raise(S)                      \* socket.error from shutdown() on a closed socket
    ELSE LET S1 == [S EXCEPT !.sock[c] = "closed"]
             S2 == log(S1, c, "QUIT", <<>>, None)
         IN  IF c \in S2.clients
             THEN Return([S2 EXCEPT !.clients = @ \ {c}], False)
             ELSE Raise(S2)            \* KeyError from del self.clients[...]

\* hasattr(os, 'fork'): the platform is posix, as the signal handlers of main need
HasFork == TRUE

handle_bgsave(S, c) ==
    \* os.fork(): the child holds a copy of the tables, saves it and exits
    IF HasFork
    THEN LET S1 == [S EXCEPT !.children = Append(@, S.tables)]
         IN  Return(log(S1, c, "BGSAVE", <<>>, None),
                    RedisMessage("Background saving started"))
    ELSE LET r == save(S)
         IN  IF r.exc THEN Raise(r.st)              \* IOError
             ELSE Return(log(r.st, c, "BGSAVE", <<>>, None),
                         RedisMessage("Background saving started"))

handle_del(S, c, key) ==
    LET S1 == log(S, c, "DEL", <<key>>, None)
    IN  IF key \notin DOMAIN Table(S1, c) THEN Return(S1, IntV(0))
        ELSE Return(SetTable(S1, c, Del(Table(S1, c), key)), IntV(1))

handle_flushdb(S, c) ==
    LET S1 == log(S, c, "FLUSHDB", <<>>, None)
    IN  Return(SetTable(S1, c, EmptyDict), True)

handle_flushall(S, c) ==
    LET S1 == log(S, c, "FLUSHALL", <<>>, None)
    IN  Return([S1 EXCEPT !.tables = [d \in DOMAIN S1.tables |-> EmptyDict]], True)

handle_get(S, c, key) ==
    LET t == Table(S, c)
        present == key \in DOMAIN t
    IN  IF present /\ t[key].kind = "deque" THEN Return(S, BAD_VALUE)
        ELSE LET data == IF present THEN StrV(str(t[key])) ELSE EMPTY_SCALAR
             IN  Return(log(S, c, "GET", <<key>>, data), data)

\* handle_incrby losing its update: the sum is returned, the table keeps the old value
handle_incrby_lost(S, c, key, by) ==
    LET t == Table(S, c)
        old == IF key \in DOMAIN t THEN int(t[key]) ELSE [ok |-> FALSE, n |-> 0]
        add == int(by)
        new == IF old.ok /\ add.ok THEN IntV(old.n + add.n) ELSE IntV(1)
        kept == IF old.ok /\ add.ok THEN IntV(old.n) ELSE IntV(1)
        S1 == SetTable(S, c, Put(t, key, kept))
    IN  Return(log(S1, c, "INCRBY", <<key, str(by)>>, new), new)

\* `by` is a str argument, or the int 1 when called from handle_incr
handle_incrby(S, c, key, by) ==
    LET t == Table(S, c)
        old == IF key \in DOMAIN t THEN int(t[key]) ELSE [ok |-> FALSE, n |-> 0]
        add == int(by)
        new == IF old.ok /\ add.ok THEN IntV(old.n + add.n) ELSE IntV(1)
        S1 == SetTable(S, c, Put(t, key, new))
    IN  Return(log(S1, c, "INCRBY", <<key, str(by)>>, new), new)

handle_incr(S, c, key) == handle_incrby(S, c, key, IntV(1))

\* self.handle_incrby(self, client, key, -by): -by of a str is a TypeError, and
\* the call passes one argument too many
handle_decrby(S, c, key, by) == Raise(S)

\* self.handle_decrby(self, client, key, 1): one argument too many, a TypeError
handle_decr(S, c, key) == Raise(S)

\* keys is client.table.keys(), the keys in the order the dict yields them
handle_keys(S, c, pattern, keys) ==
    LET r == re_compile(replace_star(pattern))
        S1 == log(S, c, "KEYS", <<pattern>>, None)
    IN  Return(S1, ListV(SelectSeq(keys, LAMBDA k : re_search(r, k))))

handle_lastsave(S, c) == Return(S, IntV(S.lastsave))

handle_llen(S, c, key) ==
    LET t == Table(S, c)
    IN  IF key \notin DOMAIN t THEN Return(S, IntV(0))
        ELSE IF t[key].kind # "deque" THEN Return(S, BAD_VALUE)
        ELSE Return(S, IntV(Len(t[key].l)))

\* handle_lpop removing the key with its last element
handle_lpop_drop(S, c, key) ==
    LET t == Table(S, c)
    IN  IF key \notin DOMAIN t THEN Return(S, EMPTY_SCALAR)
        ELSE IF t[key].kind # "deque" THEN Return(S, BAD_VALUE)
        ELSE IF Len(t[key].l) > 0
             THEN LET data == StrV(Head(t[key].l))
                      S1 == SetTable(S, c, IF Len(t[key].l) = 1 THEN Del(t, key)
                                           ELSE Put(t, key, DequeV(Tail(t[key].l))))
                  IN  Return(log(S1, c, "LPOP", <<key>>, data), data)
             ELSE Return(log(S, c, "LPOP", <<key>>, EMPTY_SCALAR), EMPTY_SCALAR)

handle_lpop(S, c, key) ==
    LET t == Table(S, c)
    IN  IF key \notin DOMAIN t THEN Return(S, EMPTY_SCALAR)
        ELSE IF t[key].kind # "deque" THEN Return(S, BAD_VALUE)
        ELSE IF Len(t[key].l) > 0
             THEN LET data == StrV(Head(t[key].l))
                      S1 == SetTable(S, c, Put(t, key, DequeV(Tail(t[key].l))))
                  IN  Return(log(S1, c, "LPOP", <<key>>, data), data)
             ELSE Return(log(S, c, "LPOP", <<key>>, EMPTY_SCALAR), EMPTY_SCALAR)

\* handle_lpush without the check of the kind: a value that is no deque is replaced
handle_lpush_any(S, c, key, data) ==
    LET t == Table(S, c)
        old == IF key \in DOMAIN t /\ t[key].kind = "deque" THEN t[key] ELSE DequeV(<<>>)
        S1 == SetTable(S, c, Put(t, key, DequeV(<<data>> \o old.l)))
    IN  Return(log(S1, c, "LPUSH", <<key, data>>, None), True)

handle_lpush(S, c, key, data) ==
    LET t == Table(S, c)
        old == IF key \in DOMAIN t THEN t[key] ELSE DequeV(<<>>)
    IN  IF old.kind # "deque" THEN Return(S, BAD_VALUE)
        ELSE LET S1 == SetTable(S, c, Put(t, key, DequeV(<<data>> \o old.l)))
             IN  Return(log(S1, c, "LPUSH", <<key, data>>, None), True)

handle_lrange(S, c, key, low, high) ==
    LET lo == int_str(low)
        hi == int_str(high)
        t == Table(S, c)
    IN  IF ~lo.ok \/ ~hi.ok THEN Raise(S)          \* ValueError
        ELSE IF key \notin DOMAIN t THEN Return(S, EMPTY_LIST)
        ELSE IF t[key].kind # "deque" THEN Return(S, BAD_VALUE)
        ELSE LET whole == lo.n = 0 /\ hi.n = -1
                 l == ListV(Slice(t[key].l, lo.n, hi.n, ~whole))
             IN  Return(log(S, c, "LRANGE", <<key, low, high>>, l), l)

handle_ping(S, c) == Return(log(S, c, "PING", <<>>, None), RedisMessage("PONG"))

handle_rpop(S, c, key) ==
    LET t == Table(S, c)
    IN  IF key \notin DOMAIN t THEN Return(S, EMPTY_SCALAR)
        ELSE IF t[key].kind # "deque" THEN Return(S, BAD_VALUE)
        ELSE IF Len(t[key].l) > 0
             THEN LET n == Len(t[key].l)
                      data == StrV(t[key].l[n])
                      S1 == SetTable(S, c, Put(t, key, DequeV(SubSeq(t[key].l, 1, n - 1))))
                  IN  Return(log(S1, c, "RPOP", <<key>>, data), data)
             ELSE Return(log(S, c, "RPOP", <<key>>, EMPTY_SCALAR), EMPTY_SCALAR)

\* handle_rpush adding at the head, as appendleft does
handle_rpush_left(S, c, key, data) ==
    LET t == Table(S, c)
        old == IF key \in DOMAIN t THEN t[key] ELSE DequeV(<<>>)
    IN  IF old.kind # "deque" THEN Return(S, BAD_VALUE)
        ELSE LET S1 == SetTable(S, c, Put(t, key, DequeV(<<data>> \o old.l)))
             IN  Return(log(S1, c, "RPUSH", <<key, data>>, None), True)

handle_rpush(S, c, key, data) ==
    LET t == Table(S, c)
        old == IF key \in DOMAIN t THEN t[key] ELSE DequeV(<<>>)
    IN  IF old.kind # "deque" THEN Return(S, BAD_VALUE)
        ELSE LET S1 == SetTable(S, c, Put(t, key, DequeV(old.l \o <<data>>)))
             IN  Return(log(S1, c, "RPUSH", <<key, data>>, None), True)

handle_save(S, c) ==
    LET r == save(S)
    IN  IF r.exc THEN Raise(r.st)                  \* IOError
        ELSE Return(log(r.st, c, "SAVE", <<>>, None), True)

handle_select(S, c, n) ==
    LET d == int_str(n)
    IN  IF ~d.ok THEN Raise(S)                     \* ValueError
        ELSE Return(log(select(S, c, d.n), c, "SELECT", <<str_int(d.n)>>, None), True)

\* handle_set that keeps the value of a key that is present
handle_set_keep(S, c, key, data) ==
    LET t == Table(S, c)
        S1 == IF key \in DOMAIN t THEN S ELSE SetTable(S, c, Put(t, key, StrV(data)))
    IN  Return(log(S1, c, "SET", <<key, data>>, None), True)

handle_set(S, c, key, data) ==
    LET S1 == SetTable(S, c, Put(Table(S, c), key, StrV(data)))
    IN  Return(log(S1, c, "SET", <<key, data>>, None), True)

handle_setnx(S, c, key, data) ==
    IF key \in DOMAIN Table(S, c)
    THEN Return(log(S, c, "SETNX FAILED", <<key, data>>, None), IntV(0))
    ELSE LET S1 == SetTable(S, c, Put(Table(S, c), key, StrV(data)))
         IN  Return(log(S1, c, "SETNX", <<key, data>>, None), IntV(1))

handle_shutdown(S, c) ==
    LET S1 == log(S, c, "SHUTDOWN", <<>>, None)
        S2 == [S1 EXCEPT !.halt = TRUE]
        r == save(S2)
    IN  IF r.exc THEN Raise(r.st) ELSE handle_quit(r.st, c)

-----------------------------------------------------------------------------
\* The codec: request frames, dispatch by name, and the reply encoder.

\* A request frame: *N and N length-prefixed arguments, the first the command
\* name.  ok = FALSE is a frame whose first line is not *<int> or announces no
\* argument.  whole = FALSE is the beginning of a frame: the *N line without
\* all of its N arguments.
Cmd(name, args) == [ok |-> TRUE, name |-> name, args |-> args, whole |-> TRUE]
BadFrame == [ok |-> FALSE, name |-> "", args |-> <<>>, whole |-> TRUE]
Part(f) == [f EXCEPT !.whole = FALSE]

\* args[0].lower()
lower(name) ==
    CASE name = "SET" -> "set"  [] name = "GET" -> "get"  [] name = "DEL" -> "del"
      [] name = "SETNX" -> "setnx"  [] name = "INCR" -> "incr"
      [] name = "INCRBY" -> "incrby"  [] name = "DECR" -> "decr"
      [] name = "DECRBY" -> "decrby"  [] name = "LPUSH" -> "lpush"
      [] name = "RPUSH" -> "rpush"  [] name = "LPOP" -> "lpop"
      [] name = "RPOP" -> "rpop"  [] name = "LLEN" -> "llen"
      [] name = "LRANGE" -> "lrange"  [] name = "KEYS" -> "keys"
      [] name = "FLUSHDB" -> "flushdb"  [] name = "FLUSHALL" -> "flushall"
      [] name = "SELECT" -> "select"  [] name = "SAVE" -> "save"
      [] name = "BGSAVE" -> "bgsave"  [] name = "LASTSAVE" -> "lastsave"
      [] name = "PING" -> "ping"  [] name = "QUIT" -> "quit"
      [] name = "SHUTDOWN" -> "shutdown"
      [] OTHER -> name

\* the handle_* methods of MiniRedis and the number of arguments each takes
\* after client
Arity ==
    [set |-> 2, setnx |-> 2, get |-> 1, del |-> 1, incr |-> 1, incrby |-> 2,
     decr |-> 1, decrby |-> 2, lpush |-> 2, rpush |-> 2, lpop |-> 1, rpop |-> 1,
     llen |-> 1, lrange |-> 3, keys |-> 1, flushdb |-> 0, flushall |-> 0,
     select |-> 1, save |-> 0, bgsave |-> 0, lastsave |-> 0, ping |-> 0,
     quit |-> 0, shutdown |-> 0]

\* getattr(self, 'handle_' + command)(client, *args[1:])
Dispatch(S, c, command, a, keys) ==
    CASE command = "set" -> handle_set(S, c, a[1], a[2])
      [] command = "setnx" -> handle_setnx(S, c, a[1], a[2])
      [] command = "get" -> handle_get(S, c, a[1])
      [] command = "del" -> handle_del(S, c, a[1])
      [] command = "incr" -> handle_incr(S, c, a[1])
      [] command = "incrby" -> handle_incrby(S, c, a[1], StrV(a[2]))
      [] command = "decr" -> handle_decr(S, c, a[1])
      [] command = "decrby" -> handle_decrby(S, c, a[1], a[2])
      [] command = "lpush" -> handle_lpush(S, c, a[1], a[2])
      [] command = "rpush" -> handle_rpush(S, c, a[1], a[2])
      [] command = "lpop" -> handle_lpop(S, c, a[1])
      [] command = "rpop" -> handle_rpop(S, c, a[1])
      [] command = "llen" -> handle_llen(S, c, a[1])
      [] command = "lrange" -> handle_lrange(S, c, a[1], a[2], a[3])
      [] command = "keys" -> handle_keys(S, c, a[1], keys)
      [] command = "flushdb" -> handle_flushdb(S, c)
      [] command = "flushall" -> handle_flushall(S, c)
      [] command = "select" -> handle_select(S, c, a[1])
      [] command = "save" -> handle_save(S, c)
      [] command = "bgsave" -> handle_bgsave(S, c)
      [] command = "lastsave" -> handle_lastsave(S, c)
      [] command = "ping" -> handle_ping(S, c)
      [] command = "quit" -> handle_quit(S, c)
      [] command = "shutdown" -> handle_shutdown(S, c)

\* MiniRedis.dump: the reply written to client.wfile for the result o.  A reply
\* is a record of the shape of Obj whose kind is the reply's first bytes.
dump(S, c, o) ==
    LET reply ==
          CASE o.kind = "True" -> <<Obj("+", 0, <<>>, <<>>, "OK")>>
            [] o.kind = "False" -> <<>>
            [] o.kind = "EmptyScalar" -> <<Obj("$-1", 0, <<>>, <<>>, "")>>
            [] o.kind = "EmptyList" -> <<Obj("*-1", 0, <<>>, <<>>, "")>>
            [] o.kind = "int" -> <<Obj(":", o.n, <<>>, <<>>, "")>>
            [] o.kind = "str" -> <<Obj("$", 0, o.s, <<>>, "")>>
            [] o.kind = "list" -> <<Obj("*", 0, <<>>, o.l, "")>>
            [] o.kind = "RedisMessage" -> <<Obj("+", 0, <<>>, <<>>, o.msg)>>
            [] o.kind = "RedisError" -> <<Obj("-ERR", 0, <<>>, <<>>, o.msg)>>
            [] OTHER -> <<Obj("return type not yet implemented", 0, <<>>, <<>>, "")>>
    IN  [S EXCEPT !.wfile[c] = @ \o reply]

\* MiniRedis.handle(client).  The buffered reader client.rfile takes what the
\* socket holds when its own buffer is empty; an empty read is a disconnect.
\* keys is the order in which the client's table yields its keys.
handle(S, c, keys) ==
    LET fill == S.rbuf[c] = <<>>
        buf == IF fill THEN S.sockbuf[c] ELSE S.rbuf[c]
    IN  IF buf = <<>>
        THEN LET S1 == log(S, c, "client disconnected", <<>>, None)
             IN  Return([S1 EXCEPT !.clients = @ \ {c}, !.sock[c] = "closed"], None)
        ELSE LET frame == Head(buf)
                 S1 == [S EXCEPT !.rbuf[c] = Tail(buf),
                                 !.sockbuf[c] = IF fill THEN <<>> ELSE @]
                 command == lower(frame.name)
             IN  IF ~frame.whole THEN Raise(S1)    \* end of stream in a frame: ValueError
                 ELSE IF ~frame.ok THEN Raise(S1)                  \* ValueError, IndexError
                 ELSE IF command \notin DOMAIN Arity THEN Raise(S1) \* AttributeError
                 ELSE IF Len(frame.args) # Arity[command] THEN Raise(S1) \* TypeError
                 ELSE With(Dispatch(S1, c, command, frame.args, keys),
                           LAMBDA r : IF r.exc THEN r
                                      ELSE Return(dump(r.st, c, r.ret), r.ret))

-----------------------------------------------------------------------------
\* The server after construction.

\* MiniRedis.load
load(S) ==
    IF S.db_file /\ S.disk.exists
    THEN log([S EXCEPT !.tables = S.disk.tables], 0, "loaded database", <<>>, None)
    ELSE S

\* MiniRedis.__init__ with db_file given or not and the snapshot file dsk
Construct(dbf, dsk) ==
    load([tables |-> EmptyDict, db |-> [c \in Conns |-> -1], clients |-> {},
          sock |-> [c \in Conns |-> "none"], halt |-> TRUE, disk |-> dsk,
          lastsave |-> 0, log_file |-> <<>>, children |-> <<>>,
          sockbuf |-> [c \in Conns |-> <<>>], rbuf |-> [c \in Conns |-> <<>>],
          wfile |-> [c \in Conns |-> <<>>],
          db_file |-> dbf, diskok |-> TRUE, now |-> 0])

\* the variables take the fields of S
Commit(S) ==
    /\ tables' = S.tables
    /\ db' = S.db
    /\ clients' = S.clients
    /\ sock' = S.sock
    /\ halt' = S.halt
    /\ disk' = S.disk
    /\ lastsave' = S.lastsave
    /\ log_file' = S.log_file
    /\ children' = S.children
    /\ sockbuf' = S.sockbuf
    /\ rbuf' = S.rbuf
    /\ wfile' = S.wfile

NoFile == [exists |-> FALSE, tables |-> EmptyDict, mtime |-> -1]

InitWith(dbf, dsk) ==
    \E S \in {Construct(dbf, dsk)} :
        /\ pc = "start"
        /\ tables = S.tables
        /\ db = S.db
        /\ clients = S.clients
        /\ sock = S.sock
        /\ halt = S.halt
        /\ disk = S.disk
        /\ lastsave = S.lastsave
        /\ log_file = S.log_file
        /\ children = S.children
        /\ sockbuf = S.sockbuf
        /\ rbuf = S.rbuf
        /\ wfile = S.wfile
        /\ db_file = S.db_file
        /\ diskok = S.diskok
        /\ now = S.now
        /\ client = 0
        /\ readable = <<>>
        /\ backlog = <<>>
        /\ peer = [c \in Conns |-> "idle"]
        /\ sent = [c \in Conns |-> <<>>]

Init == InitWith(TRUE, NoFile)

-----------------------------------------------------------------------------
\* The peers.

\* the frames connection s has sent that handle() has not decoded yet
Pending(s) == rbuf[s] \o sockbuf[s]

Running == pc \in {"select", "loop"}

\* the stream of connection c ends with the beginning of a frame
Partial(c) == Pending(c) # <<>> /\ ~Pending(c)[Len(Pending(c))].whole

\* a peer opens a connection: it waits in the listen queue
Connect(c) ==
    /\ Running
    /\ peer[c] = "idle"
    /\ \A d \in Conns : d < c => peer[d] # "idle"
    /\ peer' = [peer EXCEPT ![c] = "connected"]
    /\ backlog' = Append(backlog, c)
    /\ UNCHANGED <<pc, halt, clients, sock, db, tables, client, readable, sockbuf,
                   rbuf, wfile, log_file, db_file, disk, diskok, lastsave, now,
                   children, sent>>

RECURSIVE SumLen(_, _)
SumLen(f, n) == IF n = 0 THEN 0 ELSE Len(f[n]) + SumLen(f, n - 1)

\* the number of frames of all connections in f
Total(f) == SumLen(f, MaxConn)

\* a peer sends the frame f: at most maxEach frames per peer, maxAll in all
Send(c, f, maxEach, maxAll) ==
    /\ Running
    /\ peer[c] = "connected"
    /\ sock[c] # "closed"
    /\ Len(sent[c]) < maxEach
    /\ Total(sent) < maxAll
    /\ ~Partial(c)
    /\ sockbuf' = [sockbuf EXCEPT ![c] = Append(@, f)]
    /\ sent' = [sent EXCEPT ![c] = Append(@, f)]
    /\ UNCHANGED <<pc, halt, clients, sock, db, tables, client, readable, backlog,
                   peer, rbuf, wfile, log_file, db_file, disk, diskok, lastsave, now,
                   children>>

\* a peer sends the beginning of the frame f
SendPart(c, f, maxEach, maxAll) == Send(c, Part(f), maxEach, maxAll)

\* a peer sends the rest of the frame it began
Complete(c) ==
    /\ Running
    /\ peer[c] = "connected"
    /\ sock[c] # "closed"
    /\ Partial(c)
    /\ LET whole(q) == [q EXCEPT ![Len(q)].whole = TRUE] IN
       /\ sent' = [sent EXCEPT ![c] = whole(@)]
       /\ IF sockbuf[c] # <<>>
          THEN sockbuf' = [sockbuf EXCEPT ![c] = whole(@)] /\ rbuf' = rbuf
          ELSE rbuf' = [rbuf EXCEPT ![c] = whole(@)] /\ sockbuf' = sockbuf
    /\ UNCHANGED <<pc, halt, clients, sock, db, tables, client, readable, backlog,
                   peer, wfile, log_file, db_file, disk, diskok, lastsave, now,
                   children>>

\* a peer closes its end of the connection
Hangup(c) ==
    /\ Running
    /\ peer[c] = "connected"
    /\ sock[c] # "closed"
    /\ peer' = [peer EXCEPT ![c] = "closed"]
    /\ UNCHANGED <<pc, halt, clients, sock, db, tables, client, readable, backlog,
                   sockbuf, rbuf, wfile, log_file, db_file, disk, diskok, lastsave,
                   now, children, sent>>

-----------------------------------------------------------------------------
\* MiniRedis.run

\* all orders of the elements of a finite set
Orders(set) ==
    {q \in [1 .. Cardinality(set) -> set] : \A i, j \in DOMAIN q : i # j => q[i] # q[j]}

\* self.halt = False, and the listening socket is set up
RunStart ==
    /\ pc = "start"
    /\ pc' = "select"
    /\ halt' = FALSE
    /\ UNCHANGED <<clients, sock, db, tables, client, readable, backlog, peer,
                   sockbuf, rbuf, wfile, log_file, db_file, disk, diskok, lastsave,
                   now, children, sent>>

\* a socket select() reports readable: pending connection, pending bytes or end of stream
Ready(s) ==
    IF s = 0 THEN backlog # <<>>
    ELSE s \in clients /\ (sockbuf[s] # <<>> \/ peer[s] = "closed")

\* while not self.halt: select.select([server] + self.clients.keys(), ...) returns
\* the ready sockets, the server first, the clients in the order of the dict
Select ==
    /\ pc = "select"
    /\ ~halt
    /\ \E s \in {0} \cup Conns : Ready(s)
    /\ \E q \in Orders({s \in Conns : Ready(s)}) :
           readable' = (IF Ready(0) THEN <<0>> ELSE <<>>) \o q
    /\ pc' = "loop"
    /\ UNCHANGED <<halt, clients, sock, db, tables, client, backlog, peer, sockbuf,
                   rbuf, wfile, log_file, db_file, disk, diskok, lastsave, now,
                   children, sent>>

\* the position after the body of `for sock in readable` has run once
NextSock ==
    /\ readable' = Tail(readable)
    /\ pc' = IF Tail(readable) = <<>> THEN "select" ELSE "loop"

\* sock == server: accept, register, log, select database 0
Accept ==
    /\ pc = "loop"
    /\ readable # <<>>
    /\ Head(readable) = 0
    /\ backlog # <<>>
    /\ LET c == Head(backlog)
           S1 == [St EXCEPT !.clients = @ \cup {c}, !.sock[c] = "open"]
           S2 == log(S1, c, "client connected", <<>>, None)
       IN  /\ \E S3 \in {select(S2, c, 0)} : Commit(S3)
           /\ client' = c
    /\ backlog' = Tail(backlog)
    /\ NextSock
    /\ UNCHANGED <<peer, db_file, diskok, now, sent>>

\* except Exception, e: self.log(client, ...); self.handle_quit(client), where
\* client is the local variable of run()
on_exception(S) ==
    IF client = 0 THEN Raise(S)                    \* UnboundLocalError
    ELSE handle_quit(log(S, client, "exception", <<>>, None), client)

\* try: self.handle(self.clients[sock]) except Exception: ...
try_handle(S, s, keys) ==
    With(IF s \in S.clients THEN handle(S, s, keys) ELSE Raise(S),   \* else KeyError
         LAMBDA r : IF r.exc THEN on_exception(r.st) ELSE r)

\* the orders in which the table of connection s may yield its keys
KeyOrders(s) ==
    IF s \in clients /\ rbuf[s] \o sockbuf[s] # <<>>
       /\ lower(Head(rbuf[s] \o sockbuf[s]).name) = "keys"
    THEN Orders(DOMAIN tables[db[s]])
    ELSE {<<>>}

\* handle() of connection s waits in client.rfile.readline() or read() for the
\* rest of a frame
Blocked(s) ==
    /\ s \in clients
    /\ Pending(s) # <<>>
    /\ ~Head(Pending(s)).whole
    /\ peer[s] # "closed"

\* one pass of the loop body for a client socket; an exception that leaves the
\* except clause leaves run()
HandleSock ==
    /\ pc = "loop"
    /\ readable # <<>>
    /\ Head(readable) # 0
    /\ LET s == Head(readable) IN
       /\ s \in clients => (rbuf[s] # <<>> \/ sockbuf[s] # <<>> \/ peer[s] = "closed")
       /\ ~Blocked(s)
       /\ \E keys \in KeyOrders(s) :
            \E r \in {try_handle(St, s, keys)} :
                /\ Commit(r.st)
                /\ IF r.exc
                   THEN pc' = "crashed" /\ readable' = readable
                   ELSE NextSock
    /\ UNCHANGED <<client, backlog, peer, db_file, diskok, now, sent>>

\* after the loop: close every client socket, clear the dict, close the server
Exit ==
    /\ pc = "select"
    /\ halt
    /\ pc' = "returned"
    /\ sock' = [c \in Conns |-> IF c \in clients THEN "closed" ELSE sock[c]]
    /\ clients' = {}
    /\ UNCHANGED <<halt, db, tables, client, readable, backlog, peer, sockbuf, rbuf,
                   wfile, log_file, db_file, disk, diskok, lastsave, now, children,
                   sent>>

\* the steps of the server
Server == RunStart \/ Select \/ Accept \/ HandleSock \/ Exit

\* MiniRedis.stop, called by the SIGTERM handler: [st, exc]
stop(S) ==
    IF S.halt THEN [st |-> S, exc |-> FALSE]
    ELSE LET r == save(log(S, 0, "STOPPING", <<>>, None))
         IN  IF r.exc THEN r ELSE [st |-> [r.st EXCEPT !.halt = TRUE], exc |-> FALSE]

\* SIGTERM arrives while run() waits in select() or is between two sockets of
\* its loop: the handler calls m.stop(); an exception of the handler is raised
\* in run(), outside its try block, and leaves it
Sigterm ==
    /\ Running
    /\ ~halt
    /\ \E r \in {stop(St)} :
         /\ Commit(r.st)
         /\ pc' = IF r.exc THEN "crashed" ELSE pc
    /\ UNCHANGED <<client, readable, backlog, peer, db_file, diskok, now, sent>>

\* the child process of a BGSAVE runs self.save() on its copy of the tables and
\* exits; its assignment to lastsave is to its own copy of the server
ChildSave ==
    /\ children # <<>>
    /\ children' = Tail(children)
    /\ disk' = IF db_file /\ diskok
               THEN [exists |-> TRUE, tables |-> Head(children), mtime |-> now]
               ELSE disk
    /\ UNCHANGED <<pc, halt, clients, sock, db, tables, client, readable, backlog, peer,
                   sockbuf, rbuf, wfile, log_file, db_file, diskok, lastsave, now, sent>>

\* Seconds of the clock in the models.
MaxNow == 2

\* time.time() grows
Tick ==
    /\ now < MaxNow
    /\ now' = now + 1
    /\ UNCHANGED <<pc, halt, clients, sock, db, tables, client, readable, backlog, peer,
                   sockbuf, rbuf, wfile, log_file, db_file, disk, diskok, lastsave,
                   children, sent>>

\* the snapshot file becomes unwritable, or writable again
DiskFlip ==
    /\ diskok' = ~diskok
    /\ UNCHANGED <<pc, halt, clients, sock, db, tables, client, readable, backlog, peer,
                   sockbuf, rbuf, wfile, log_file, db_file, disk, lastsave, now,
                   children, sent>>

-----------------------------------------------------------------------------
\* The connection lifecycle model: peers connect, send requests that are well
\* formed, malformed or unknown, quit, hang up.

K == <<"k">>
V == <<"v">>

LifeFrames ==
    {Cmd("PING", <<>>), Cmd("GET", <<K>>), Cmd("SET", <<K, V>>), Cmd("QUIT", <<>>),
     Cmd("SHUTDOWN", <<>>), Cmd("FOO", <<>>), Cmd("GET", <<>>), BadFrame,
     Cmd("DECR", <<K>>), Cmd("DECRBY", <<K, <<"1">>>>), Cmd("LRANGE", <<K, <<"x">>, <<"1">>>>)}

Next ==
    \/ Server
    \/ \E c \in Conns : Connect(c)
    \/ \E c \in Conns : \E f \in LifeFrames : Send(c, f, MaxSends, MaxSends)
    \/ \E c \in Conns : Hangup(c)

Spec == Init /\ [][Next]_vars

-----------------------------------------------------------------------------
\* The counter model: every connection sends INCR k, at most MaxIncr times, at
\* any moment of the server's loop.

\* Number of INCR requests of one connection.
MaxIncr == 2

NextIncr ==
    \/ RunStart
    \/ Select
    \/ Accept
    \/ HandleSock
    \/ \E c \in Conns : Connect(c)
    \/ \E c \in Conns : Send(c, Cmd("INCR", <<K>>), MaxIncr, MaxConn * MaxIncr)

SpecIncr == Init /\ [][NextIncr]_vars

-----------------------------------------------------------------------------
\* The data models.  The server starts from a snapshot file that holds database
\* 0 with the key k absent or holding a value of one of the kinds; the peers
\* send one request at a time, each when the server waits in select() with
\* nothing left to read.

W == <<"w">>
X == <<"x">>
A == <<"a">>
B == <<"b">>

\* what database 0 of the snapshot may hold
SeedTables ==
    {EmptyDict} \cup
    {Put(EmptyDict, K, v) :
        v \in {StrV(V), StrV(<<"5">>), IntV(5), DequeV(<<A, B>>)}}

Snapshot(T) == [exists |-> TRUE, tables |-> Put(EmptyDict, 0, T), mtime |-> -1]

InitSeeded == \E T \in SeedTables : InitWith(TRUE, Snapshot(T))

Quiet ==
    /\ pc = "select"
    /\ backlog = <<>>
    /\ \A c \in Conns : c \in clients => Pending(c) = <<>>

QuietConnect(c) == Quiet /\ Connect(c)

QuietSend(c, f, maxEach, maxAll) == Quiet /\ c \in clients /\ Send(c, f, maxEach, maxAll)

\* Number of requests in the model of SET and GET.
MaxSetGet == 2

SetGetFrames ==
    {Cmd("SET", <<K, W>>), Cmd("GET", <<K>>), Cmd("DEL", <<K>>), Cmd("INCR", <<K>>),
     Cmd("LPUSH", <<K, X>>), Cmd("FLUSHALL", <<>>), Cmd("SELECT", <<<<"1">>>>)}

NextSetGet ==
    \/ RunStart
    \/ Select
    \/ Accept
    \/ HandleSock
    \/ \E c \in Conns : QuietConnect(c)
    \/ \E c \in Conns : \E f \in SetGetFrames : QuietSend(c, f, MaxSetGet, MaxSetGet)

SpecSetGet == InitSeeded /\ [][NextSetGet]_vars

\* Number of requests in the model of the operations on a key of either kind.
MaxKind == 2

KindFrames ==
    {Cmd("GET", <<K>>), Cmd("LPUSH", <<K, X>>), Cmd("RPUSH", <<K, X>>), Cmd("LPOP", <<K>>),
     Cmd("RPOP", <<K>>), Cmd("LLEN", <<K>>), Cmd("LRANGE", <<K, <<"0">>, <<"-", "1">>>>)}

NextKind ==
    \/ RunStart
    \/ Select
    \/ Accept
    \/ HandleSock
    \/ \E c \in Conns : QuietConnect(c)
    \/ \E c \in Conns : \E f \in KindFrames : QuietSend(c, f, MaxKind, MaxKind)

SpecKind == InitSeeded /\ [][NextKind]_vars

\* Number of requests in the model of the counter commands.
MaxArith == 2

ArithFrames ==
    {Cmd("INCR", <<K>>), Cmd("INCRBY", <<K, <<"3">>>>), Cmd("DECR", <<K>>),
     Cmd("DECRBY", <<K, <<"2">>>>), Cmd("GET", <<K>>)}

NextArith ==
    \/ RunStart
    \/ Select
    \/ Accept
    \/ HandleSock
    \/ \E c \in Conns : QuietConnect(c)
    \/ \E c \in Conns : \E f \in ArithFrames : QuietSend(c, f, MaxArith, MaxArith)

SpecArith == InitSeeded /\ [][NextArith]_vars

\* Number of requests in the model of KEYS.
MaxKeys == 2

Apple == <<"a", "p", "p", "l", "e">>
Ant == <<"a", "n", "t">>
Banana == <<"b", "a", "n", "a", "n", "a">>

\* database 0 of the snapshot holds any of the three keys
KeysTables == {[k \in ks |-> StrV(V)] : ks \in SUBSET {Apple, Ant, Banana}}

InitKeys == \E T \in KeysTables : InitWith(TRUE, Snapshot(T))

KeysFrames ==
    {Cmd("KEYS", <<<<"a", "*">>>>), Cmd("KEYS", <<<<"b", "*">>>>), Cmd("KEYS", <<<<"a", "n", "*">>>>),
     Cmd("KEYS", <<<<"*">>>>), Cmd("DEL", <<Banana>>)}

NextKeys ==
    \/ RunStart
    \/ Select
    \/ Accept
    \/ HandleSock
    \/ \E c \in Conns : QuietConnect(c)
    \/ \E c \in Conns : \E f \in KeysFrames : QuietSend(c, f, MaxKeys, MaxKeys)

SpecKeys == InitKeys /\ [][NextKeys]_vars

\* Number of requests in the model of the list commands.
MaxListOps == 5

ListFrames ==
    {Cmd("LPUSH", <<K, A>>), Cmd("LPUSH", <<K, B>>), Cmd("RPUSH", <<K, A>>), Cmd("RPUSH", <<K, B>>),
     Cmd("LPOP", <<K>>), Cmd("RPOP", <<K>>), Cmd("LRANGE", <<K, <<"0">>, <<"-", "1">>>>)}

\* one peer works on the key k, absent at the start
NextList ==
    \/ RunStart
    \/ Select
    \/ Accept
    \/ HandleSock
    \/ QuietConnect(1)
    \/ \E f \in ListFrames : QuietSend(1, f, MaxListOps, MaxListOps)

SpecList == Init /\ [][NextList]_vars

\* Number of requests in the model of SELECT.
MaxSelect == 4

One == <<"1">>

SelectFrames ==
    {Cmd("SELECT", <<One>>), Cmd("SET", <<A, One>>), Cmd("SELECT", <<<<"0">>>>), Cmd("GET", <<A>>)}

\* the first peer runs any of the commands; the others select database 1 and
\* write to the database they are on
FramesOf(c) == IF c = 1 THEN SelectFrames ELSE {Cmd("SELECT", <<One>>), Cmd("SET", <<A, One>>)}

NextSelect ==
    \/ RunStart
    \/ Select
    \/ Accept
    \/ HandleSock
    \/ \E c \in Conns : QuietConnect(c)
    \/ \E c \in Conns : \E f \in FramesOf(c) : QuietSend(c, f, MaxSelect, MaxSelect)

SpecSelect == Init /\ [][NextSelect]_vars

\* The persistence model: requests that save, time passing, the children of
\* BGSAVE, a snapshot file that may be unwritable, SIGTERM; db_file given or not.

\* Number of requests in the model of persistence.
MaxSave == 3

SaveFrames ==
    {Cmd("SAVE", <<>>), Cmd("BGSAVE", <<>>), Cmd("LASTSAVE", <<>>), Cmd("SET", <<K, V>>),
     Cmd("SHUTDOWN", <<>>)}

InitSave == \E dbf \in BOOLEAN : InitWith(dbf, NoFile)

NextSave ==
    \/ RunStart
    \/ Select
    \/ Accept
    \/ HandleSock
    \/ Exit
    \/ Sigterm
    \/ ChildSave
    \/ Tick
    \/ DiskFlip
    \/ \E c \in Conns : QuietConnect(c)
    \/ \E c \in Conns : \E f \in SaveFrames : QuietSend(c, f, MaxSave, MaxSave)

SpecSave == InitSave /\ [][NextSave]_vars

\* The key lifetime model: one peer runs the commands on the key k, which is
\* absent or holds a list of one element at the start.

\* Number of requests in the model of the lifetime of a key.
MaxKeyOps == 3

KeyFrames ==
    {Cmd("SET", <<K, V>>), Cmd("SETNX", <<K, V>>), Cmd("INCR", <<K>>), Cmd("INCRBY", <<K, One>>),
     Cmd("LPUSH", <<K, A>>), Cmd("RPUSH", <<K, A>>), Cmd("DEL", <<K>>), Cmd("FLUSHDB", <<>>),
     Cmd("FLUSHALL", <<>>), Cmd("GET", <<K>>), Cmd("LPOP", <<K>>), Cmd("RPOP", <<K>>),
     Cmd("LLEN", <<K>>), Cmd("LRANGE", <<K, <<"0">>, <<"-", "1">>>>), Cmd("DECR", <<K>>),
     Cmd("SELECT", <<One>>)}

InitKey == \E T \in {EmptyDict, Put(EmptyDict, K, DequeV(<<A>>))} : InitWith(TRUE, Snapshot(T))

NextKey ==
    \/ RunStart
    \/ Select
    \/ Accept
    \/ HandleSock
    \/ QuietConnect(1)
    \/ \E f \in KeyFrames : QuietSend(1, f, MaxKeyOps, MaxKeyOps)

SpecKey == InitKey /\ [][NextKey]_vars

\* The LRANGE model: one peer asks for ranges of the key k, which is absent or
\* holds a list of none or three elements.

\* Number of requests in the model of LRANGE.
MaxRange == 1

\* The bounds of a range are between -MaxIdx and MaxIdx.
MaxIdx == 4

RangeFrames ==
    {Cmd("LRANGE", <<K, str_int(lo), str_int(hi)>>) : lo, hi \in (0 - MaxIdx) .. MaxIdx}

InitRange ==
    \E T \in {EmptyDict, Put(EmptyDict, K, DequeV(<<>>)), Put(EmptyDict, K, DequeV(<<A, B, X>>))} :
        InitWith(TRUE, Snapshot(T))

NextRange ==
    \/ RunStart
    \/ Select
    \/ Accept
    \/ HandleSock
    \/ QuietConnect(1)
    \/ \E f \in RangeFrames : QuietSend(1, f, MaxRange, MaxRange)

SpecRange == InitRange /\ [][NextRange]_vars

\* The model of requests that arrive in pieces: a peer sends a request, or the
\* beginning of one, when its previous request has been handled; SIGTERM may
\* arrive.  The server takes a step whenever it can.

\* Number of requests in the model of requests in pieces.
MaxPart == 2

PartFrames == {Cmd("PING", <<>>), Cmd("SET", <<K, V>>)}

SoloSend(c, f, maxEach, maxAll) == c \in clients /\ Pending(c) = <<>> /\ Send(c, f, maxEach, maxAll)

SoloSendPart(c, f, maxEach, maxAll) ==
    c \in clients /\ Pending(c) = <<>> /\ SendPart(c, f, maxEach, maxAll)

NextPartial ==
    \/ RunStart
    \/ Select
    \/ Accept
    \/ HandleSock
    \/ Exit
    \/ Sigterm
    \/ \E c \in Conns : Connect(c)
    \/ \E c \in Conns : \E f \in PartFrames : SoloSend(c, f, MaxPart, MaxPart)
    \/ \E c \in Conns : \E f \in PartFrames : SoloSendPart(c, f, MaxPart, MaxPart)
    \/ \E c \in Conns : Complete(c)

SpecPartial == Init /\ [][NextPartial]_vars /\ WF_vars(Server)

\* The pipelining model: a peer sends requests without waiting for the
\* replies.  The server takes a step whenever it can.

\* Number of requests in the model of pipelining.
MaxPipe == 2

PipeFrames == {Cmd("PING", <<>>), Cmd("SET", <<K, V>>)}

NextPipe ==
    \/ RunStart
    \/ Select
    \/ Accept
    \/ HandleSock
    \/ \E c \in Conns : Connect(c)
    \/ \E c \in Conns : \E f \in PipeFrames : Send(c, f, MaxPipe, MaxPipe)

SpecPipe == Init /\ [][NextPipe]_vars /\ WF_vars(Server)

-----------------------------------------------------------------------------
\* Vocabulary of the properties.

\* the frames of connection s that handle() has decoded
Decoded(s) == SubSeq(sent[s], 1, Len(sent[s]) - Len(Pending(s)))

\* this step is stop() called by the signal handler
Stops == log_file' = Append(log_file, [who |-> SERVER, op |-> "STOPPING", args |-> <<>>, res |-> None])

\* this step is a pass of the loop body of run() for the socket s
Handled(s) ==
    /\ pc = "loop"
    /\ readable # <<>>
    /\ Head(readable) = s
    /\ (readable' # readable \/ pc' # pc)
    /\ ~Stops

\* this step is handle() decoding the frame f of the live connection s
Handles(s, f) ==
    /\ Handled(s)
    /\ s \in clients
    /\ Pending(s) # <<>>
    /\ Head(Pending(s)) = f

\* replies on the wire
OkReply == Obj("+", 0, <<>>, <<>>, "OK")
NilReply == Obj("$-1", 0, <<>>, <<>>, "")
NilListReply == Obj("*-1", 0, <<>>, <<>>, "")
IntReply(n) == Obj(":", n, <<>>, <<>>, "")
BulkReply(s) == Obj("$", 0, s, <<>>, "")
MultiReply(l) == Obj("*", 0, <<>>, l, "")
TypeErrorReply ==
    Obj("-ERR", 0, <<>>, <<>>, "Operation against a key holding the wrong kind of value")

\* this step wrote exactly the reply rep to connection s
Replied(s, rep) == wfile'[s] = Append(wfile[s], rep)

\* whether the table of connection s holds key, and what it holds
Holds(s, key) == key \in DOMAIN tables[db[s]]
Held(s, key) == tables[db[s]][key]

\* the command of a well-formed frame f is name, with n arguments
Is(f, name, n) == f.ok /\ lower(f.name) = name /\ Len(f.args) = n

-----------------------------------------------------------------------------
\* C1: when handling a request of connection a raises an exception, a is the
\* connection that is shut down and removed from the live set, and every other
\* live connection stays live.
C1_ExceptionQuitsOffender ==
    [][\A a \in Conns :
         (Handled(a) /\ a \in clients /\ Pending(a) # <<>> /\ handle(St, a, <<>>).exc)
         => (clients' = clients \ {a} /\ sock'[a] = "closed")]_vars

\* C2: whatever the peers do, run() does not end by an exception: it returns
\* only with the halt flag set.
C2_NoAbnormalExit == pc # "crashed" /\ (pc = "returned" => halt)

\* C3: with every connection issuing INCR k on an absent key, under every
\* interleaving the replies are integers, exactly 1 .. n for the n replies written
\* so far with none repeated, k holds n, and once each of the MaxConn connections
\* has its MaxIncr replies k holds MaxConn * MaxIncr.
C3_IncrAtomic ==
    LET n == Total(wfile)
        vals == {wfile[c][i].n : <<c, i>> \in {x \in Conns \X (1 .. MaxIncr) : x[2] <= Len(wfile[x[1]])}}
    IN  /\ \A c \in Conns : \A i \in 1 .. Len(wfile[c]) : wfile[c][i].kind = ":"
        /\ vals = 1 .. n
        /\ n > 0 => tables[0][K] = IntV(n)
        /\ n = 0 => (0 \in DOMAIN tables => K \notin DOMAIN tables[0])
        /\ (\A c \in Conns : Len(wfile[c]) = MaxIncr)
               => tables[0][K] = IntV(MaxConn * MaxIncr)

\* C3 witness: both connections have all their replies, and the requests of
\* connection 2 ran between two requests of connection 1.
C3_Witness ==
    /\ \A c \in Conns : Len(wfile[c]) = MaxIncr
    /\ wfile[1][1].n < wfile[2][1].n
    /\ wfile[2][1].n < wfile[1][2].n

\* C4: SET k v stores the string v under k in the database of the issuing
\* connection, whatever k held, and answers +OK; GET k on any connection whose
\* database holds a string under k answers that string; and what a database
\* holds under a key changes only in a step that handles, on a connection with
\* that database selected, a command that writes or removes the key (or FLUSHALL
\* on any connection).  Hence GET k returns v from SET k v until the next such
\* command.
C4_SetThenGet ==
    [][/\ \A s \in Conns : \A f \in SetGetFrames :
            (Handles(s, f) /\ Is(f, "set", 2))
            => (/\ f.args[1] \in DOMAIN tables'[db[s]]
                /\ tables'[db[s]][f.args[1]] = StrV(f.args[2])
                /\ Replied(s, OkReply))
       /\ \A s \in Conns : \A f \in SetGetFrames :
            (Handles(s, f) /\ Is(f, "get", 1) /\ Holds(s, f.args[1])
                /\ Held(s, f.args[1]).kind = "str")
            => Replied(s, BulkReply(Held(s, f.args[1]).s))
       /\ \A d \in DOMAIN tables : \A key \in DOMAIN tables[d] :
            (d \notin DOMAIN tables' \/ key \notin DOMAIN tables'[d]
                \/ tables'[d][key] # tables[d][key])
            => \E s \in Conns : \E f \in SetGetFrames :
                 /\ Handles(s, f)
                 /\ \/ Is(f, "flushall", 0)
                    \/ db[s] = d /\ Is(f, "flushdb", 0)
                    \/ /\ db[s] = d
                       /\ lower(f.name) \in {"set", "setnx", "del", "incr", "incrby",
                                             "lpush", "rpush", "lpop", "rpop"}
                       /\ f.args # <<>>
                       /\ f.args[1] = key
      ]_vars

\* C4 witness: k held a list; connection 1 has SET k w and then connection 2,
\* on the same database, has got w from GET k.
C4_Witness ==
    /\ disk.tables[0] = Put(EmptyDict, K, DequeV(<<A, B>>))
    /\ Decoded(1) = <<Cmd("SET", <<K, W>>)>>
    /\ Decoded(2) = <<Cmd("GET", <<K>>)>>
    /\ wfile[2] = <<BulkReply(W)>>
    /\ db[1] = db[2]

\* the frame f, handled for connection s, asks for an operation of the kind the
\* value under its key is not
WrongKind(s, f) ==
    /\ f.args # <<>>
    /\ Holds(s, f.args[1])
    /\ LET kind == Held(s, f.args[1]).kind IN
       \/ Is(f, "get", 1) /\ kind = "deque"
       \/ (Is(f, "lpush", 2) \/ Is(f, "rpush", 2)) /\ kind # "deque"
       \/ (Is(f, "lpop", 1) \/ Is(f, "rpop", 1) \/ Is(f, "llen", 1)) /\ kind # "deque"
       \/ /\ Is(f, "lrange", 3)
          /\ int_str(f.args[2]).ok
          /\ int_str(f.args[3]).ok
          /\ kind # "deque"

\* C5: a wrong-kind operation (GET on a list; LPUSH, RPUSH, LPOP, RPOP, LLEN or
\* LRANGE with integer bounds on a value that is no list) answers the type error,
\* changes no key or value of any database, and leaves the connection live.
C5_WrongKindNoChange ==
    [][\A s \in Conns : \A f \in KindFrames :
         (Handles(s, f) /\ WrongKind(s, f))
         => (/\ Replied(s, TypeErrorReply)
             /\ tables' = tables
             /\ s \in clients'
             /\ sock'[s] = "open")]_vars

\* C5 witness: k holds a string; connection 1 got the type error for LPUSH and
\* for LRANGE, and the tables are those loaded.
C5_Witness ==
    /\ disk.tables[0] = Put(EmptyDict, K, StrV(V))
    /\ Decoded(1) = <<Cmd("LPUSH", <<K, X>>), Cmd("LRANGE", <<K, <<"0">>, <<"-", "1">>>>)>>
    /\ wfile[1] = <<TypeErrorReply, TypeErrorReply>>
    /\ tables = disk.tables
    /\ 1 \in clients

\* C6: INCRBY k n with an integer n never fails: it stores and returns m + n
\* when k holds a value that parses as the integer m, and n when k is absent or
\* holds anything else; INCR k is INCRBY k 1.
C6_IncrByAddsAmount ==
    [][\A s \in Conns : \A f \in ArithFrames :
         (/\ Handles(s, f)
          /\ Is(f, "incr", 1) \/ (Is(f, "incrby", 2) /\ int_str(f.args[2]).ok))
         => LET n == IF Is(f, "incr", 1) THEN 1 ELSE int_str(f.args[2]).n
                m == IF Holds(s, f.args[1]) /\ int(Held(s, f.args[1])).ok
                     THEN int(Held(s, f.args[1])).n ELSE 0
            IN  /\ f.args[1] \in DOMAIN tables'[db[s]]
                /\ tables'[db[s]][f.args[1]] = IntV(m + n)
                /\ Replied(s, IntReply(m + n))]_vars

\* C8: DECR k and DECRBY k n, on a live connection whose key k holds the
\* integer m, store and return m - 1 and m - n, answer with an integer reply and
\* leave the connection live.
C8_DecrSupported ==
    [][\A s \in Conns : \A f \in ArithFrames :
         (/\ Handles(s, f)
          /\ Is(f, "decr", 1) \/ (Is(f, "decrby", 2) /\ int_str(f.args[2]).ok)
          /\ Holds(s, f.args[1])
          /\ int(Held(s, f.args[1])).ok)
         => LET n == IF Is(f, "decr", 1) THEN 1 ELSE int_str(f.args[2]).n
                m == int(Held(s, f.args[1])).n
            IN  /\ f.args[1] \in DOMAIN tables'[db[s]]
                /\ tables'[db[s]][f.args[1]] = IntV(m - n)
                /\ Replied(s, IntReply(m - n))
                /\ s \in clients']_vars

\* the string s starts with the string p
StartsWith(s, p) == Len(s) >= Len(p) /\ SubSeq(s, 1, Len(p)) = p

\* C7: KEYS with a pattern made of a literal prefix followed by * returns the
\* keys of the database that start with the prefix and no other key; KEYS a* on
\* {apple, ant, banana} returns apple and ant and not banana.
C7_KeysPrefix ==
    [][\A s \in Conns : \A f \in KeysFrames :
         (/\ Handles(s, f)
          /\ Is(f, "keys", 1)
          /\ Len(f.args[1]) >= 2
          /\ f.args[1][Len(f.args[1])] = "*"
          /\ \A i \in 1 .. Len(f.args[1]) - 1 : f.args[1][i] # "*")
         => LET prefix == SubSeq(f.args[1], 1, Len(f.args[1]) - 1)
                reply == wfile'[s][Len(wfile'[s])]
            IN  /\ Len(wfile'[s]) = Len(wfile[s]) + 1
                /\ reply.kind = "*"
                /\ {reply.l[i] : i \in DOMAIN reply.l}
                     = {x \in DOMAIN tables[db[s]] : StartsWith(x, prefix)}]_vars

\* The reference double-ended sequence: the key is absent until the first
\* push; r is [present, q, replies].
RefStep(r, f) ==
    CASE Is(f, "lpush", 2) ->
           [present |-> TRUE, q |-> <<f.args[2]>> \o r.q, replies |-> Append(r.replies, OkReply)]
      [] Is(f, "rpush", 2) ->
           [present |-> TRUE, q |-> Append(r.q, f.args[2]), replies |-> Append(r.replies, OkReply)]
      [] Is(f, "lpop", 1) ->
           IF r.q = <<>> THEN [r EXCEPT !.replies = Append(@, NilReply)]
           ELSE [r EXCEPT !.q = Tail(@), !.replies = Append(@, BulkReply(Head(r.q)))]
      [] Is(f, "rpop", 1) ->
           IF r.q = <<>> THEN [r EXCEPT !.replies = Append(@, NilReply)]
           ELSE [r EXCEPT !.q = SubSeq(@, 1, Len(@) - 1),
                          !.replies = Append(@, BulkReply(r.q[Len(r.q)]))]
      [] Is(f, "lrange", 3) ->
           [r EXCEPT !.replies = Append(@, IF r.present THEN MultiReply(r.q) ELSE NilListReply)]

RECURSIVE RefRun(_, _)
RefRun(r, frames) == IF frames = <<>> THEN r ELSE RefRun(RefStep(r, Head(frames)), Tail(frames))

RefList == RefRun([present |-> FALSE, q |-> <<>>, replies |-> <<>>], Decoded(1))

\* C9: after any sequence of LPUSH, RPUSH, LPOP, RPOP and LRANGE k 0 -1 on a
\* key k absent at the start, the replies and the stored list are those of the
\* reference double-ended sequence: LPUSH prepends, RPUSH appends, the pops
\* return the head or the tail element, or EmptyScalar when k is absent or the
\* list is empty, and LRANGE k 0 -1 returns the whole sequence head to tail.
C9_ListLikeDeque ==
    /\ wfile[1] = RefList.replies
    /\ RefList.present
         => (0 \in DOMAIN tables /\ K \in DOMAIN tables[0] /\ tables[0][K] = DequeV(RefList.q))
    /\ ~RefList.present => (0 \in DOMAIN tables => K \notin DOMAIN tables[0])

\* C9 witness: RPUSH a, RPUSH b and three LPOP answered a, b and EmptyScalar.
C9_Witness ==
    /\ Decoded(1) = <<Cmd("RPUSH", <<K, A>>), Cmd("RPUSH", <<K, B>>), Cmd("LPOP", <<K>>),
                      Cmd("LPOP", <<K>>), Cmd("LPOP", <<K>>)>>
    /\ wfile[1] = <<OkReply, OkReply, BulkReply(A), BulkReply(B), NilReply>>
    /\ tables[0][K] = DequeV(<<>>)

\* C10: a command other than FLUSHALL leaves every database but the one the
\* connection selected unchanged; SELECT n changes the selected database of the
\* issuing connection only, creating database n empty if it did not exist; a
\* new connection starts on database 0; GET of a key absent from the selected
\* database answers EmptyScalar; nothing but a command changes a database, and
\* a database is empty when it is created.
C10_DatabasesIsolated ==
    [][/\ \A s \in Conns : \A f \in SelectFrames :
            Handles(s, f) =>
              /\ ~Is(f, "flushall", 0)
                   => \A j \in DOMAIN tables :
                        j # db[s] => (j \in DOMAIN tables' /\ tables'[j] = tables[j])
              /\ IF Is(f, "select", 1) /\ int_str(f.args[1]).ok
                 THEN LET n == int_str(f.args[1]).n IN
                      /\ db' = [db EXCEPT ![s] = n]
                      /\ DOMAIN tables' = DOMAIN tables \cup {n}
                      /\ \A j \in DOMAIN tables : tables'[j] = tables[j]
                      /\ n \notin DOMAIN tables => tables'[n] = EmptyDict
                 ELSE db' = db
              /\ (Is(f, "get", 1) /\ ~Holds(s, f.args[1])) => Replied(s, NilReply)
       /\ \A c \in Conns : (c \notin clients /\ c \in clients') => db'[c] = 0
       /\ \A j \in DOMAIN tables :
            (j \notin DOMAIN tables' \/ tables'[j] # tables[j])
            => \E s \in Conns : \E f \in SelectFrames : Handles(s, f)
       /\ \A j \in DOMAIN tables' \ DOMAIN tables : tables'[j] = EmptyDict]_vars

\* C10 witness: connection 1 ran SELECT 1, SET a 1, SELECT 0, GET a and got
\* EmptyScalar, with a second connection live.
C10_Witness ==
    /\ Decoded(1) = <<Cmd("SELECT", <<One>>), Cmd("SET", <<A, One>>), Cmd("SELECT", <<<<"0">>>>),
                      Cmd("GET", <<A>>)>>
    /\ wfile[1] = <<OkReply, OkReply, OkReply, NilReply>>
    /\ tables[1] = Put(EmptyDict, A, StrV(One))
    /\ tables[0] = EmptyDict
    /\ 2 \in clients

\* C11: a request whose command name is not in the command table is answered
\* with an error reply (-ERR ...) written to the issuing connection, and the
\* keyspace is left unchanged.
C11_UnknownCommandInformed ==
    [][\A s \in Conns : \A f \in LifeFrames :
         (Handles(s, f) /\ f.ok /\ lower(f.name) \notin DOMAIN Arity)
         => (/\ Len(wfile'[s]) = Len(wfile[s]) + 1
             /\ wfile'[s][Len(wfile'[s])].kind = "-ERR"
             /\ tables' = tables)]_vars

\* C12: once a snapshot has been written by SAVE, BGSAVE, SHUTDOWN or stop(),
\* LASTSAVE returns the time of the most recent such write; a SAVE without a
\* snapshot file writes nothing and does not count.
C12_LastsaveIsLastWrite ==
    [][\A s \in Conns :
         (Handles(s, Cmd("LASTSAVE", <<>>)) /\ disk.mtime >= 0)
         => Replied(s, IntReply(disk.mtime))]_vars

\* C13: when the snapshot cannot be written, SAVE, SHUTDOWN and stop() do not
\* make run() end with an exception, the failure is logged, the tables are
\* unchanged and no connection but the requester is closed; after a failed SAVE
\* the server keeps running; a child of BGSAVE that fails changes nothing of
\* the server.
C13_SaveFailureContained ==
    [][/\ \A s \in Conns : \A f \in {Cmd("SAVE", <<>>), Cmd("SHUTDOWN", <<>>)} :
            (Handles(s, f) /\ db_file /\ ~diskok)
            => (/\ pc' # "crashed"
                /\ tables' = tables
                /\ clients \ {s} \subseteq clients'
                /\ Len(log_file') > Len(log_file)
                /\ f = Cmd("SAVE", <<>>) => (pc' \in {"select", "loop"} /\ ~halt'))
       /\ (Stops /\ db_file /\ ~diskok)
            => (pc' # "crashed" /\ tables' = tables /\ clients' = clients)
       /\ (children' # children /\ Len(children') < Len(children))
            => (pc' = pc /\ tables' = tables /\ clients' = clients /\ halt' = halt)]_vars

\* the frame f writes the key
Writes(f, key) ==
    /\ f.args # <<>>
    /\ f.args[1] = key
    /\ \/ Is(f, "set", 2) \/ Is(f, "setnx", 2) \/ Is(f, "incr", 1) \/ Is(f, "incrby", 2)
       \/ Is(f, "lpush", 2) \/ Is(f, "rpush", 2)

\* C14: in every database a key becomes present only through SET, SETNX, INCR,
\* INCRBY, LPUSH or RPUSH of that key on that database, and absent only through
\* DEL of that key or FLUSHDB on that database, or FLUSHALL; these writes make
\* an absent key present; a pop leaves the key present, also when it takes the
\* last element; SETNX of a present key answers 0 and DEL answers 1 for a
\* present key, which it removes, and 0 for an absent one.
C14_KeyLifetime ==
    [][/\ \A d \in DOMAIN tables' : \A key \in DOMAIN tables'[d] :
            (d \notin DOMAIN tables \/ key \notin DOMAIN tables[d])
            => \E s \in Conns : \E f \in KeyFrames :
                 Handles(s, f) /\ db[s] = d /\ Writes(f, key)
       /\ \A d \in DOMAIN tables : \A key \in DOMAIN tables[d] :
            (d \notin DOMAIN tables' \/ key \notin DOMAIN tables'[d])
            => \E s \in Conns : \E f \in KeyFrames :
                 /\ Handles(s, f)
                 /\ \/ Is(f, "del", 1) /\ f.args[1] = key /\ db[s] = d
                    \/ Is(f, "flushdb", 0) /\ db[s] = d
                    \/ Is(f, "flushall", 0)
       /\ \A s \in Conns : \A f \in KeyFrames :
            Handles(s, f) =>
              /\ (Writes(f, K) /\ ~Holds(s, K)) => K \in DOMAIN tables'[db[s]]
              /\ ((Is(f, "lpop", 1) \/ Is(f, "rpop", 1)) /\ Holds(s, K))
                   => K \in DOMAIN tables'[db[s]]
              /\ (Is(f, "setnx", 2) /\ Holds(s, K))
                   => (Replied(s, IntReply(0)) /\ tables' = tables)
              /\ Is(f, "del", 1)
                   => (/\ Replied(s, IntReply(IF Holds(s, K) THEN 1 ELSE 0))
                       /\ K \notin DOMAIN tables'[db[s]])]_vars

\* C14 witness: k held a list of one element; LPOP returned it, SETNX then
\* answered 0 and DEL answered 1.
C14_Witness ==
    /\ disk.tables[0] = Put(EmptyDict, K, DequeV(<<A>>))
    /\ Decoded(1) = <<Cmd("LPOP", <<K>>), Cmd("SETNX", <<K, V>>), Cmd("DEL", <<K>>)>>
    /\ wfile[1] = <<BulkReply(A), IntReply(0), IntReply(1)>>
    /\ tables[0] = EmptyDict

\* C15: SHUTDOWN sets the halt flag only after its save has completed: when
\* handling SHUTDOWN leaves the flag set, the snapshot file holds the tables,
\* written by this request.
C15_SaveBeforeHalt ==
    [][\A s \in Conns :
         (Handles(s, Cmd("SHUTDOWN", <<>>)) /\ db_file /\ halt')
         => (disk'.exists /\ disk'.tables = tables /\ disk'.mtime = now /\ lastsave' = now)]_vars

\* C16: once the halt flag is set while run() is active, run() does not end with
\* an exception: it returns, and when it has returned the live set is empty and
\* no connection socket is open.
C16_OrderlyHalt ==
    /\ (halt /\ pc # "start") => pc # "crashed"
    /\ pc = "returned" => (clients = {} /\ \A c \in Conns : sock[c] # "open")

\* The elements of l at the 0-based positions i with low <= i < high, a
\* negative bound counted from the end of l.
RECURSIVE Between(_, _, _, _)
Between(l, i, low, high) ==
    IF i >= Len(l) THEN <<>>
    ELSE (IF low <= i /\ i < high THEN <<l[i + 1]>> ELSE <<>>) \o Between(l, i + 1, low, high)

FromEnd(l, i) == IF i < 0 THEN i + Len(l) ELSE i

\* C17: LRANGE k low high with integer bounds on a key holding a list raises
\* nothing and answers the elements from low up to but not including high,
\* negative bounds counted from the end and bounds out of range clamped, except
\* that low = 0 with high = -1 answers the whole list; on an absent key it
\* answers EmptyList; the tables are unchanged and the connection stays live.
C17_LrangeIsSlice ==
    [][\A s \in Conns : \A f \in RangeFrames :
         Handles(s, f) =>
           LET low == int_str(f.args[2]).n
               high == int_str(f.args[3]).n
           IN  /\ tables' = tables
               /\ s \in clients'
               /\ IF ~Holds(s, K) THEN Replied(s, NilListReply)
                  ELSE LET l == Held(s, K).l IN
                       Replied(s, MultiReply(IF low = 0 /\ high = -1 THEN l
                                             ELSE Between(l, 0, FromEnd(l, low), FromEnd(l, high))))]_vars

\* C17 witness: k holds a, b, x; LRANGE k -2 4 answered b, x.
C17_Witness ==
    /\ disk.tables[0] = Put(EmptyDict, K, DequeV(<<A, B, X>>))
    /\ Decoded(1) = <<Cmd("LRANGE", <<K, <<"-", "2">>, <<"4">>>>)>>
    /\ wfile[1] = <<MultiReply(<<B, X>>)>>
    /\ 1 \in clients

\* C18: a connection that sent the beginning of a request and stays silent
\* stalls no other connection: a complete request of a live connection is
\* eventually handled (or the connection closed, or run() has returned), and
\* once the halt flag is set run() eventually returns.
C18_PartialStallsOnlyItself ==
    /\ \A c \in Conns :
         (c \in clients /\ Pending(c) # <<>> /\ Head(Pending(c)).whole)
         ~> (Pending(c) = <<>> \/ c \notin clients \/ pc = "returned")
    /\ (halt /\ pc # "start") ~> (pc = "returned")

\* C19: every complete request a live connection has sent is eventually handled
\* and answered, whether or not the connection sends anything more: the
\* requests that are not handled yet eventually are, and the server has then
\* written one reply for each request of the connection.
C19_PipelinedRequestsHandled ==
    \A c \in Conns :
        (c \in clients /\ Pending(c) # <<>>)
        ~> (c \notin clients \/ (Pending(c) = <<>> /\ Len(wfile[c]) = Len(sent[c])))

\* C20: when run() has returned after a halt whose save succeeded, the snapshot
\* file holds the tables as they are in memory.
C20_SnapshotIsFinalKeyspace ==
    (pc = "returned" /\ db_file /\ diskok) => (disk.exists /\ disk.tables = tables)

====
